---- MODULE Spec2Model ----
(***************************************************************************)
(* Model of the Pomodoro timer component of src/src/App.tsx.               *)
(*                                                                         *)
(* The component keeps four pieces of React state (mode, timeLeft,         *)
(* isRunning, completedPomodoros) and one ref (intervalRef).  A single     *)
(* useEffect with dependencies [isRunning, timeLeft, mode] creates the     *)
(* one-second interval, detects expiry and returns a cleanup that clears   *)
(* the interval.                                                           *)
(*                                                                         *)
(* Granularity: an event handler (a click or an interval callback) and     *)
(* the render/commit it causes are one step.  When the dependencies of     *)
(* the effect changed in that commit, the cleanup of the previous effect   *)
(* and then the new effect body run as the next two steps (pc = "cleanup", *)
(* pc = "effect"); React flushes pending passive effects before it         *)
(* renders any later update, so no handler is interleaved with them.  A    *)
(* state with pc = "idle" is a settled state.                              *)
(*                                                                         *)
(* lastOp, prevOp and scenario are history variables: they record which    *)
(* handlers ran and influence no program variable.                         *)
(***************************************************************************)
EXTENDS Integers, FiniteSets, Sequences, TLC

VARIABLES mode, timeLeft, isRunning, completedPomodoros, intervalRef,
          timers, resetMode, pc, lastOp, prevOp, scenario

vars == <<mode, timeLeft, isRunning, completedPomodoros, intervalRef,
          timers, resetMode, pc, lastOp, prevOp, scenario>>

\* ---------------------------------------------------------------- bounds
\* Handlers stop being delivered once the tally has reached this value.
MaxCompleted == 3

\* Timer handles the platform may hand out: 1..MaxTimerId.
MaxTimerId == 2

\* ------------------------------------------------------- program constants
TimerMode == {"focus", "shortBreak", "longBreak"}

TIMER_DURATIONS ==
    [focus |-> 25 * 60, shortBreak |-> 5 * 60, longBreak |-> 15 * 60]

\* useRef<number | null>(null): the falsy initial content of intervalRef.
Null == 0

TimerIds == 1 .. MaxTimerId

\* ------------------------------------------------------ pieces of the code
\* Variant: the button only ever switches the countdown on.
ToggleUpdaterOn(prev) == TRUE

\* setIsRunning((prev) => !prev)
ToggleUpdater(prev) == ~prev

\* Variant: a tick takes two seconds off.
TickUpdaterTwo(prev) == prev - 2

\* setTimeLeft((prev) => prev - 1)
TickUpdater(prev) == prev - 1

\* Variant: the interval is not started for the last second.
ShouldStartIntervalOffByOne(running, left) == running /\ left > 1

\* Variant: the interval is started without looking at the remaining time.
ShouldStartIntervalAnyTime(running, left) == running

\* if (isRunning && timeLeft > 0)
ShouldStartInterval(running, left) == running /\ left > 0

\* Variant: expiry is only detected below zero.
ExpiredBelowZero(left) == left < 0

\* else if (timeLeft === 0)
Expired(left) == left = 0

\* if (mode === 'focus')
CountsAsPomodoro(m) == m = "focus"

\* Variant: the cleanup clears the interval only while the countdown runs.
ClearIntervalWhileRunning(active, ref) ==
    IF isRunning /\ ref # Null THEN active \ {ref} ELSE active

\* Variant: the cleanup leaves the interval running.
ClearIntervalSkip(active, ref) == active

\* if (intervalRef.current) clearInterval(intervalRef.current)
ClearInterval(active, ref) == IF ref # Null THEN active \ {ref} ELSE active

\* window.setInterval returns a handle that is not one of the active timers.
FreshTimerIds(active) == TimerIds \ active

\* The dependency list of the effect, [isRunning, timeLeft, mode].
EffectDeps(running, left, m) == <<running, left, m>>

\* Variant: useCallback(..., []) keeps the closure of the first render.
ResetClosureStale(renderedMode, oldClosure) == oldClosure

\* useCallback(..., [mode]): resetTimer closes over the mode of the render.
ResetClosure(renderedMode, oldClosure) == renderedMode

\* ------------------------------------------------------------- formatTime
\* A string is modelled as the sequence of its characters.
DigitChars == <<"0", "1", "2", "3", "4", "5", "6", "7", "8", "9">>

\* Number.prototype.toString() of an integer, in base 10.
RECURSIVE NumberToString(_)
NumberToString(n) ==
    IF n < 0 THEN <<"-">> \o NumberToString(0 - n)
    ELSE IF n < 10 THEN <<DigitChars[n + 1]>>
    ELSE NumberToString(n \div 10) \o <<DigitChars[(n % 10) + 1]>>

\* Variant: no padding is applied.
PadStartNone(str, targetLength, padChar) == str

\* String.prototype.padStart(targetLength, padChar) with a one-character pad.
PadStart(str, targetLength, padChar) ==
    IF Len(str) >= targetLength
    THEN str
    ELSE [i \in 1 .. (targetLength - Len(str)) |-> padChar] \o str

\* The % operator of the language: the result has the sign of the dividend.
JsRem(a, b) == IF a >= 0 THEN a % b ELSE 0 - ((0 - a) % b)

\* const mins = Math.floor(seconds / 60); const secs = seconds % 60;
\* `${mins.toString().padStart(2, '0')}:${secs.toString().padStart(2, '0')}`
formatTime(seconds) ==
    LET mins == seconds \div 60
        secs == JsRem(seconds, 60)
    IN  PadStart(NumberToString(mins), 2, "0") \o <<":">>
            \o PadStart(NumberToString(secs), 2, "0")

\* After a commit the effect is re-run iff one of its dependencies changed.
AfterCommit(running, left, m) ==
    IF EffectDeps(running, left, m) # EffectDeps(isRunning, timeLeft, mode)
    THEN "cleanup"
    ELSE "idle"

\* A handler can be delivered: nothing of the previous commit is pending.
Settled == pc = "idle"

CanDeliver == Settled /\ completedPomodoros < MaxCompleted

\* ---------------------------------------------------------------- history
\* An operation is recorded as <<name>> or <<"selectMode", newMode>>; a click
\* on the start/pause button is "start" when isRunning was false and "pause"
\* when it was true.  scenario = "A" while the operations so far are one
\* start from the initial state followed by ticks only.
OpName(op) == op[1]

Record(op) ==
    /\ lastOp' = op
    /\ prevOp' = lastOp
    /\ scenario' = IF OpName(op) = "start" /\ scenario = "fresh" THEN "A"
                   ELSE IF OpName(op) = "tick" /\ scenario = "A" THEN "A"
                   ELSE "other"

\* -------------------------------------------------------------------- Init
Init ==
    /\ mode = "focus"
    /\ timeLeft = TIMER_DURATIONS["focus"]
    /\ isRunning = FALSE
    /\ completedPomodoros = 0
    /\ intervalRef = Null
    /\ timers = {}
    /\ resetMode = "focus"
    /\ pc = "idle"
    /\ lastOp = <<"none">>
    /\ prevOp = <<"none">>
    /\ scenario = "fresh"

\* ----------------------------------------------------------------- actions
\* Variant: selecting a mode does not stop the countdown.
handleModeChangeKeepRunning(newMode) ==
    /\ CanDeliver
    /\ mode' = newMode
    /\ timeLeft' = TIMER_DURATIONS[newMode]
    /\ isRunning' = isRunning
    /\ resetMode' = ResetClosure(mode', resetMode)
    /\ pc' = AfterCommit(isRunning', timeLeft', mode')
    /\ Record(<<"selectMode", newMode>>)
    /\ UNCHANGED <<completedPomodoros, intervalRef, timers>>

\* setMode(newMode); setTimeLeft(TIMER_DURATIONS[newMode]); setIsRunning(false)
handleModeChange(newMode) ==
    /\ CanDeliver
    /\ mode' = newMode
    /\ timeLeft' = TIMER_DURATIONS[newMode]
    /\ isRunning' = FALSE
    /\ resetMode' = ResetClosure(mode', resetMode)
    /\ pc' = AfterCommit(isRunning', timeLeft', mode')
    /\ Record(<<"selectMode", newMode>>)
    /\ UNCHANGED <<completedPomodoros, intervalRef, timers>>

\* setIsRunning((prev) => !prev)
toggleTimer ==
    /\ CanDeliver
    /\ isRunning' = ToggleUpdater(isRunning)
    /\ resetMode' = ResetClosure(mode, resetMode)
    /\ pc' = AfterCommit(isRunning', timeLeft, mode)
    /\ Record(IF isRunning THEN <<"pause">> ELSE <<"start">>)
    /\ UNCHANGED <<mode, timeLeft, completedPomodoros, intervalRef, timers>>

\* Variant: reset flips the running flag the way the start/pause button does.
resetTimerToggling ==
    /\ CanDeliver
    /\ timeLeft' = TIMER_DURATIONS[resetMode]
    /\ isRunning' = ToggleUpdater(isRunning)
    /\ resetMode' = ResetClosure(mode, resetMode)
    /\ pc' = AfterCommit(isRunning', timeLeft', mode)
    /\ Record(<<"reset">>)
    /\ UNCHANGED <<mode, completedPomodoros, intervalRef, timers>>

\* setTimeLeft(TIMER_DURATIONS[mode]); setIsRunning(false), with the mode the
\* callback closed over.
resetTimer ==
    /\ CanDeliver
    /\ timeLeft' = TIMER_DURATIONS[resetMode]
    /\ isRunning' = FALSE
    /\ resetMode' = ResetClosure(mode, resetMode)
    /\ pc' = AfterCommit(isRunning', timeLeft', mode)
    /\ Record(<<"reset">>)
    /\ UNCHANGED <<mode, completedPomodoros, intervalRef, timers>>

\* The callback of an active interval fires.
IntervalCallback ==
    /\ CanDeliver
    /\ \E id \in timers :
          /\ timeLeft' = TickUpdater(timeLeft)
          /\ resetMode' = ResetClosure(mode, resetMode)
          /\ pc' = AfterCommit(isRunning, timeLeft', mode)
          /\ Record(<<"tick">>)
          /\ UNCHANGED <<mode, isRunning, completedPomodoros, intervalRef,
                         timers>>

\* The function returned by the previous run of the effect.
EffectCleanup ==
    /\ pc = "cleanup"
    /\ timers' = ClearInterval(timers, intervalRef)
    /\ pc' = "effect"
    /\ UNCHANGED <<mode, timeLeft, isRunning, completedPomodoros, intervalRef,
                   resetMode, lastOp, prevOp, scenario>>

\* The body of the effect, first branch: start the interval.
EffectStart ==
    /\ pc = "effect"
    /\ ShouldStartInterval(isRunning, timeLeft)
    /\ \E id \in FreshTimerIds(timers) :
          /\ intervalRef' = id
          /\ timers' = timers \cup {id}
    /\ pc' = "idle"
    /\ UNCHANGED <<mode, timeLeft, isRunning, completedPomodoros, resetMode,
                   lastOp, prevOp, scenario>>

\* Variant: a finished Focus interval moves on to the short break.
EffectExpiredAutoAdvance ==
    /\ pc = "effect"
    /\ ~ShouldStartInterval(isRunning, timeLeft)
    /\ Expired(timeLeft)
    /\ isRunning' = FALSE
    /\ completedPomodoros' = IF CountsAsPomodoro(mode)
                             THEN completedPomodoros + 1
                             ELSE completedPomodoros
    /\ mode' = IF mode = "focus" THEN "shortBreak" ELSE mode
    /\ resetMode' = ResetClosure(mode', resetMode)
    /\ pc' = AfterCommit(isRunning', timeLeft, mode')
    /\ UNCHANGED <<timeLeft, intervalRef, timers, lastOp, prevOp, scenario>>

\* The body of the effect, second branch: the countdown is at zero.
EffectExpired ==
    /\ pc = "effect"
    /\ ~ShouldStartInterval(isRunning, timeLeft)
    /\ Expired(timeLeft)
    /\ isRunning' = FALSE
    /\ completedPomodoros' = IF CountsAsPomodoro(mode)
                             THEN completedPomodoros + 1
                             ELSE completedPomodoros
    /\ resetMode' = ResetClosure(mode, resetMode)
    /\ pc' = AfterCommit(isRunning', timeLeft, mode)
    /\ UNCHANGED <<mode, timeLeft, intervalRef, timers, lastOp, prevOp,
                   scenario>>

\* The body of the effect when neither branch applies.
EffectNoop ==
    /\ pc = "effect"
    /\ ~ShouldStartInterval(isRunning, timeLeft)
    /\ ~Expired(timeLeft)
    /\ pc' = "idle"
    /\ UNCHANGED <<mode, timeLeft, isRunning, completedPomodoros, intervalRef,
                   timers, resetMode, lastOp, prevOp, scenario>>

Next ==
    \/ \E m \in TimerMode : handleModeChange(m)
    \/ toggleTimer
    \/ resetTimer
    \/ IntervalCallback
    \/ EffectCleanup
    \/ EffectStart
    \/ EffectExpired
    \/ EffectNoop

Spec == Init /\ [][Next]_vars

\* The same component under the scheduling of its platform: an active
\* interval keeps firing, and a pending cleanup or effect body is run.
LiveSpec ==
    /\ Spec
    /\ WF_vars(IntervalCallback)
    /\ WF_vars(EffectCleanup)
    /\ WF_vars(EffectStart)
    /\ WF_vars(EffectExpired)
    /\ WF_vars(EffectNoop)

\* ================================================================== claims

\* C1: in every reachable state the remaining time is at least 0 and at most
\* the fixed duration of the current mode.
C1_TimeLeftInRange ==
    /\ timeLeft >= 0
    /\ timeLeft <= TIMER_DURATIONS[mode]

\* A countdown has been driven down to zero by ticks.
C1_Witness ==
    /\ timeLeft = 0
    /\ lastOp = <<"tick">>
    /\ mode = "shortBreak"

\* C2: from the initial state, one start followed by ticks only ends, once
\* the countdown is at zero and the component has settled, paused with
\* exactly one completed focus session.
C2_ScenarioA ==
    (scenario = "A" /\ Settled /\ timeLeft = 0)
        => (~isRunning /\ completedPomodoros = 1)

\* C3: a click on start/pause made while the remaining time is 0 (the click
\* and the effect runs it causes) never changes the tally of completed
\* focus sessions.
C3_CountedOnce ==
    [][(timeLeft = 0 /\ OpName(lastOp') \in {"start", "pause"})
          => completedPomodoros' = completedPomodoros]_vars

\* C4: after selectMode(m), and until the next operation, the mode is m, the
\* remaining time is the duration of m and the countdown is not running.
C4_SelectMode ==
    \A m \in TimerMode :
        lastOp = <<"selectMode", m>>
            => /\ mode = m
               /\ timeLeft = TIMER_DURATIONS[m]
               /\ ~isRunning

\* selectMode was invoked on a running countdown and the component settled.
C4_Witness ==
    /\ lastOp = <<"selectMode", "longBreak">>
    /\ prevOp = <<"tick">>
    /\ Settled

\* C5: reset leaves the mode unchanged, and after reset, until the next
\* operation, the remaining time is the duration of that mode and the
\* countdown is not running.
C5_Reset ==
    /\ [](lastOp = <<"reset">>
            => (timeLeft = TIMER_DURATIONS[mode] /\ ~isRunning))
    /\ [][lastOp' = <<"reset">> => mode' = mode]_vars

\* reset was invoked right after a selectMode to a mode other than the
\* initial one.
C5_Witness ==
    /\ lastOp = <<"reset">>
    /\ OpName(prevOp) = "selectMode"
    /\ mode = "shortBreak"
    /\ Settled

\* C6: at most one interval is active in every state, between the steps of
\* handlers, cleanups and effect bodies.
C6_AtMostOneTimer == Cardinality(timers) <= 1

\* An interval has been cancelled and a new one created after a tick.
C6_Witness ==
    /\ timers # {}
    /\ lastOp = <<"tick">>
    /\ Settled

\* C7: a settled component that is not running has no active interval, and
\* while it is not running the remaining time changes only in a selectMode
\* or reset handler.
C7_NoStaleTimer ==
    /\ [](Settled /\ ~isRunning => timers = {})
    /\ [][(~isRunning /\ timeLeft' # timeLeft)
             => (Settled /\ OpName(lastOp') \in {"selectMode", "reset"})]_vars

\* The countdown was paused part-way and the component settled.
C7_Witness ==
    /\ Settled
    /\ ~isRunning
    /\ lastOp = <<"pause">>
    /\ prevOp = <<"tick">>
    /\ timeLeft > 0

\* C8: a settled component whose remaining time is 0 is not running and has
\* no active interval, and the step that stops a running countdown at 0 is
\* not an operation of the user.
C8_AutoPause ==
    /\ [](Settled /\ timeLeft = 0 => (~isRunning /\ timers = {}))
    /\ [][(timeLeft = 0 /\ isRunning /\ ~isRunning')
             => (pc = "effect" /\ lastOp' = lastOp)]_vars

\* A break interval ran down to zero and the component settled.
C8_Witness ==
    /\ Settled
    /\ timeLeft = 0
    /\ mode = "longBreak"
    /\ lastOp = <<"tick">>
    /\ ~isRunning

\* C9: the tally of completed focus sessions never decreases, and it changes
\* only in steps that follow a tick which brought a Focus countdown to zero.
C9_TallyFrame ==
    [][completedPomodoros' # completedPomodoros
          => /\ completedPomodoros' > completedPomodoros
             /\ mode = "focus"
             /\ timeLeft = 0
             /\ lastOp = <<"tick">>]_vars

\* C10: after a start from an idle state followed directly by another click
\* on start/pause, the settled component is not running; and no click on
\* start/pause, nor the effect runs it causes, changes the remaining time or
\* the mode.
C10_StartThenPause ==
    /\ []((Settled /\ prevOp = <<"start">>
                   /\ OpName(lastOp) \in {"start", "pause"}) => ~isRunning)
    /\ [][OpName(lastOp') \in {"start", "pause"}
             => (timeLeft' = timeLeft /\ mode' = mode)]_vars

\* A start directly followed by a pause, part-way through a countdown.
C10_Witness ==
    /\ Settled
    /\ prevOp = <<"start">>
    /\ lastOp = <<"pause">>
    /\ timeLeft > 0
    /\ timeLeft < TIMER_DURATIONS[mode]

\* C11: a click on Start made while the remaining time is 0 creates no
\* interval and leaves the remaining time at 0 (in the click and in the
\* effect runs it causes), and the component settles not running.
C11_StartAtZero ==
    /\ [][(timeLeft = 0 /\ lastOp' = <<"start">>)
             => (timers' = {} /\ timeLeft' = 0)]_vars
    /\ []((Settled /\ lastOp = <<"start">> /\ timeLeft = 0)
             => (~isRunning /\ timers = {}))

\* Start was clicked on a break interval that had run down to zero.
C11_Witness ==
    /\ Settled
    /\ lastOp = <<"start">>
    /\ prevOp = <<"tick">>
    /\ timeLeft = 0
    /\ mode = "shortBreak"

\* C12: a reset invoked directly after a reset has settled changes none of
\* mode, remaining time, running flag, tally and active intervals, and
\* causes no effect run.
C12_ResetIdempotent ==
    [][(Settled /\ lastOp = <<"reset">> /\ lastOp' = <<"reset">>)
          => /\ UNCHANGED <<mode, timeLeft, isRunning, completedPomodoros,
                            timers>>
             /\ pc' = "idle"]_vars

\* Two resets in a row, the first one on a component that had been started.
C12_Witness ==
    /\ Settled
    /\ lastOp = <<"reset">>
    /\ prevOp = <<"reset">>
    /\ mode = "longBreak"
    /\ timers = {}

\* C13: for a remaining time s in 0..1500 the displayed time is exactly five
\* characters: the tens and units digit of floor(s/60), a colon, and the
\* tens and units digit of s mod 60; 65 is shown as 01:05 and 0 as 00:00.
C13_FormatTime ==
    /\ timeLeft \in 0 .. 1500 =>
          /\ Len(formatTime(timeLeft)) = 5
          /\ formatTime(timeLeft) =
                << DigitChars[((timeLeft \div 60) \div 10) + 1],
                   DigitChars[((timeLeft \div 60) % 10) + 1],
                   ":",
                   DigitChars[((timeLeft % 60) \div 10) + 1],
                   DigitChars[((timeLeft % 60) % 10) + 1] >>
    /\ timeLeft = 65 => formatTime(timeLeft) = <<"0", "1", ":", "0", "5">>
    /\ timeLeft = 0 => formatTime(timeLeft) = <<"0", "0", ":", "0", "0">>

\* The countdown shows one minute and five seconds.
C13_Witness ==
    /\ timeLeft = 65
    /\ lastOp = <<"tick">>
    /\ formatTime(timeLeft) = <<"0", "1", ":", "0", "5">>

\* C14: an interval callback is delivered only with remaining time above 0,
\* takes exactly 1 off it and leaves mode, running flag and tally unchanged;
\* when the result is still above 0, the effect runs that follow change none
\* of remaining time, mode, running flag and tally.
C14_TickDecrementsByOne ==
    /\ [][(Settled /\ lastOp' = <<"tick">>)
             => /\ timeLeft > 0
                /\ timeLeft' = timeLeft - 1
                /\ UNCHANGED <<mode, isRunning, completedPomodoros>>]_vars
    /\ [][(~Settled /\ lastOp = <<"tick">> /\ timeLeft > 0)
             => UNCHANGED <<timeLeft, mode, isRunning,
                            completedPomodoros>>]_vars

\* Two ticks in a row have been delivered and the countdown goes on.
C14_Witness ==
    /\ Settled
    /\ lastOp = <<"tick">>
    /\ prevOp = <<"tick">>
    /\ isRunning
    /\ timeLeft > 0
    /\ timeLeft = TIMER_DURATIONS[mode] - 2

\* C15: whenever the countdown is running with remaining time above 0, then
\* eventually either the component has settled at remaining time 0 and not
\* running, or the user has intervened with pause, reset or selectMode.
C15_CountdownCompletes ==
    (isRunning /\ timeLeft > 0)
        ~> \/ (Settled /\ timeLeft = 0 /\ ~isRunning /\ timers = {})
           \/ OpName(lastOp) \in {"pause", "reset", "selectMode"}

\* A countdown ran from its start to zero with no operation of the user in
\* between, and the component settled.
C15_Witness ==
    /\ Settled
    /\ scenario = "A"
    /\ timeLeft = 0
    /\ ~isRunning
    /\ timers = {}

\* C16: in a settled state an interval is active exactly when the countdown
\* is running with remaining time above 0, and a settled running component
\* has exactly one active interval, the one intervalRef holds, and remaining
\* time above 0.
C16_TimerIffRunning ==
    Settled =>
        /\ (timers # {}) <=> (isRunning /\ timeLeft > 0)
        /\ isRunning => /\ timeLeft > 0
                        /\ Cardinality(timers) = 1
                        /\ timers = {intervalRef}

\* A countdown is in its last second, settled, with its interval active.
C16_Witness ==
    /\ Settled
    /\ isRunning
    /\ timeLeft = 1
    /\ Cardinality(timers) = 1

\* C17: the mode changes only in a selectMode handler, to the mode selected;
\* start, pause, reset, ticks and the effect runs (auto-pause included)
\* leave it unchanged.
C17_ModeOnlyBySelect ==
    [][mode' # mode
          => /\ Settled
             /\ lastOp' = <<"selectMode", mode'>>]_vars

\* A Focus interval has finished and been paused by the effect, and the
\* component is still in Focus mode.
C17_Witness ==
    /\ Settled
    /\ mode = "focus"
    /\ timeLeft = 0
    /\ ~isRunning
    /\ lastOp = <<"tick">>
    /\ completedPomodoros > 0

====
